---- MODULE Spec2Model ----
(***************************************************************************)
(* Lighthouse report v2: the score aggregator (ReportGeneratorV2) and the  *)
(* report renderer (ReportRenderer), modelled as state machines whose      *)
(* actions apply the program's functions to inputs drawn from bounded sets.*)
(***************************************************************************)
EXTENDS Integers, Sequences, FiniteSets, TLC

VARIABLES
    pc,          \* position of the run: "start", then what has been computed
    items,       \* the argument of arithmeticMean
    mean,        \* the value arithmeticMean returned
    config,      \* the configuration: category entries in the order it lists them
    resultsByAuditId, \* audit id -> raw result (an id may be absent)
    json,        \* what generateReportJson returned (or that it threw)
    dom,         \* the document: the templates it holds
    reportJSON,  \* the argument of renderReport
    element,     \* what renderReport returned (or that it threw)
    detailsJSON, \* the argument of _renderDetails
    rendered,    \* what _renderDetails returned or threw
    source,      \* the source argument of replaceStrings
    replacements, \* the replacements argument of replaceStrings
    replaced     \* what replaceStrings returned

meanVars == <<items, mean>>
jsonVars == <<config, resultsByAuditId, json>>
renderVars == <<dom, reportJSON, element>>
detailsVars == <<detailsJSON, rendered>>
replaceVars == <<source, replacements, replaced>>
vars == <<pc, meanVars, jsonVars, renderVars, detailsVars, replaceVars>>

(***************************************************************************)
(* JavaScript values.  Every value is a record [t, n, d]: t is the kind,   *)
(* n/d the numeric payload (a finite number is the fraction n/d in lowest  *)
(* terms with d > 0; an infinity carries its sign in n; a boolean carries  *)
(* 0 or 1 in n).  "str" is a string that does not parse as a number,       *)
(* "numstr" a string that parses as the number n.                          *)
(***************************************************************************)
Num(i) == [t |-> "num", n |-> i, d |-> 1]
PosInf == [t |-> "inf", n |-> 1, d |-> 1]
NegInf == [t |-> "inf", n |-> -1, d |-> 1]
NaN == [t |-> "nan", n |-> 0, d |-> 1]
Null == [t |-> "null", n |-> 0, d |-> 1]
Undefined == [t |-> "undefined", n |-> 0, d |-> 1]
Bool(b) == [t |-> "bool", n |-> IF b THEN 1 ELSE 0, d |-> 1]
Str == [t |-> "str", n |-> 0, d |-> 1]
NumStr(i) == [t |-> "numstr", n |-> i, d |-> 1]

IsFinite(x) == x.t = "num"
IsZero(x) == x.t = "num" /\ x.n = 0
Sign(x) == IF x.n > 0 THEN 1 ELSE IF x.n < 0 THEN -1 ELSE 0
Abs(i) == IF i < 0 THEN -i ELSE i

RECURSIVE Gcd(_, _)
Gcd(a, b) == IF b = 0 THEN a ELSE Gcd(b, a % b)

\* The finite number p/q (q # 0), in lowest terms with a positive denominator.
Frac(p, q) ==
    LET g == Gcd(Abs(p), Abs(q))
        s == IF q < 0 THEN -1 ELSE 1
    IN  [t |-> "num", n |-> (s * p) \div g, d |-> Abs(q) \div g]

\* Number(x): ToNumber of a primitive value.
ToNumber(x) ==
    CASE x.t \in {"num", "inf", "nan"} -> x
      [] x.t = "null" -> Num(0)
      [] x.t = "undefined" -> NaN
      [] x.t = "bool" -> Num(x.n)
      [] x.t = "str" -> NaN
      [] x.t = "numstr" -> Num(x.n)

\* x || 0 for a number x: NaN and 0 are falsy.
OrZero(x) == IF x.t = "nan" \/ IsZero(x) THEN Num(0) ELSE x

\* a + b on numbers.
Add(a, b) ==
    CASE a.t = "nan" \/ b.t = "nan" -> NaN
      [] a.t = "inf" /\ b.t = "inf" -> IF a.n = b.n THEN a ELSE NaN
      [] a.t = "inf" -> a
      [] b.t = "inf" -> b
      [] OTHER -> Frac(a.n * b.d + b.n * a.d, a.d * b.d)

\* a * b on numbers.
Mul(a, b) ==
    CASE a.t = "nan" \/ b.t = "nan" -> NaN
      [] a.t = "inf" \/ b.t = "inf" ->
            IF Sign(a) * Sign(b) = 0 THEN NaN
            ELSE IF Sign(a) * Sign(b) > 0 THEN PosInf ELSE NegInf
      [] OTHER -> Frac(a.n * b.n, a.d * b.d)

\* a / b on numbers.  A zero divisor is +0 here: the weight total starts at
\* +0 and every addend went through `|| 0`, so it is never -0.
Div(a, b) ==
    CASE a.t = "nan" \/ b.t = "nan" -> NaN
      [] a.t = "inf" /\ b.t = "inf" -> NaN
      [] a.t = "inf" -> IF Sign(b) < 0 THEN (IF a.n > 0 THEN NegInf ELSE PosInf) ELSE a
      [] b.t = "inf" -> Num(0)
      [] IsZero(b) -> IF Sign(a) = 0 THEN NaN
                      ELSE IF Sign(a) > 0 THEN PosInf ELSE NegInf
      [] OTHER -> Frac(a.n * b.d, a.d * b.n)

\* Math.round(x): the nearest integer, a tie going up.
MathRound(x) ==
    IF x.t = "num" THEN Num((2 * x.n + x.d) \div (2 * x.d)) ELSE x

(***************************************************************************)
(* ReportGeneratorV2.arithmeticMean                                        *)
(***************************************************************************)
\* The reducer of arithmeticMean: one item folded into {weight, sum}.
meanStep(result, item) ==
    LET score == OrZero(ToNumber(item.score))
        weight == OrZero(ToNumber(item.weight))
    IN  [weight |-> Add(result.weight, weight),
         sum |-> Add(result.sum, Mul(score, weight))]

RECURSIVE meanReduce(_, _)
meanReduce(its, result) ==
    IF its = <<>> THEN result
    ELSE meanReduce(Tail(its), meanStep(result, Head(its)))

arithmeticMean(its) ==
    LET results == meanReduce(its, [weight |-> Num(0), sum |-> Num(0)])
    IN  OrZero(Div(results.sum, results.weight))

(***************************************************************************)
(* ReportGeneratorV2.generateReportJson                                    *)
(***************************************************************************)
\* A details node is a record [type, text, header, items]; header is the
\* sequence of the 0 or 1 nodes of the optional list header.
\* undefinedDetails is result.details of a result that has none.
undefinedDetails == [type |-> "undefined", text |-> "", header |-> <<>>, items |-> <<>>]

\* Property keys that are canonical array indices, with their numeric value.
IndexValue == ("2" :> 2) @@ ("10" :> 10)
IsArrayIndex(id) == id \in DOMAIN IndexValue

RECURSIVE SortIndexKeys(_)
SortIndexKeys(S) ==
    IF S = {} THEN <<>>
    ELSE LET m == CHOOSE k \in S : \A o \in S : IndexValue[k] <= IndexValue[o]
         IN  <<m>> \o SortIndexKeys(S \ {m})

\* Object.keys(config.categories): the own keys of the object the
\* configuration builds: array-index keys in ascending numeric order first,
\* then the other string keys in the order they were created.
ObjectKeys(entries) ==
    LET ids == [i \in 1..Len(entries) |-> entries[i].id]
    IN  SortIndexKeys({ids[i] : i \in {j \in 1..Len(ids) : IsArrayIndex(ids[j])}})
        \o SelectSeq(ids, LAMBDA id : ~IsArrayIndex(id))

\* config.categories[categoryId]
Lookup(entries, id) ==
    entries[CHOOSE i \in 1..Len(entries) : entries[i].id = id].category

\* normalizeScore without the boolean case of lines 79-81.
normalizeScore_NoBoolean(score) == OrZero(ToNumber(score))

\* The score of one audit (lines 78-81).
normalizeScore(score) ==
    IF score.t = "bool"
    THEN (IF score.n = 1 THEN Num(100) ELSE Num(0))
    ELSE OrZero(ToNumber(score))

\* One audit of category.audits.map: the audit merged with {result, score}.
scoreAudit(audit, res) ==
    LET result == res[audit.id]
        auditScore == normalizeScore(result.score)
    IN  [id |-> audit.id, weight |-> audit.weight, result |-> result, score |-> auditScore]

\* One category of the outer map: the category merged with {audits, score}.
scoreCategory(category, res) ==
    LET audits == [i \in 1..Len(category.audits) |-> scoreAudit(category.audits[i], res)]
        categoryScore == MathRound(arithmeticMean(audits))
    IN  [name |-> category.name, description |-> category.description,
         weight |-> category.weight, audits |-> audits, score |-> categoryScore]

\* `result.score` on a result that is not in resultsByAuditId reads a
\* property of undefined: a TypeError leaves generateReportJson.
throwsTypeError(entries, res) ==
    \E i \in 1..Len(entries) :
        \E j \in 1..Len(entries[i].category.audits) :
            entries[i].category.audits[j].id \notin DOMAIN res

generateReportJson(entries, res) ==
    IF throwsTypeError(entries, res)
    THEN [threw |-> TRUE, score |-> Num(0), categories |-> <<>>]
    ELSE LET keys == ObjectKeys(entries)
             categories == [i \in 1..Len(keys) |-> scoreCategory(Lookup(entries, keys[i]), res)]
         IN  [threw |-> FALSE, score |-> arithmeticMean(categories),
              categories |-> categories]

(***************************************************************************)
(* report-renderer.js.  An element is a record [tag, cls, text, open,      *)
(* kids]: its class list as a set, its text content as the sequence of the *)
(* strings concatenated into it, its children in document order.  A        *)
(* function that may throw returns [ok, el, err]: the element it returned, *)
(* or the error that left it.                                              *)
(***************************************************************************)
Element(tag, cls, text, kids) ==
    [tag |-> tag, cls |-> cls, text |-> text, open |-> FALSE, kids |-> kids]
noElement == Element("", {}, <<>>, <<>>)
Error(name, message) == [name |-> name, message |-> message]
noError == Error("", <<>>)
Return(el) == [ok |-> TRUE, el |-> el, err |-> noError]
Throw(e) == [ok |-> FALSE, el |-> noElement, err |-> e]

\* score >= min and score < max for a number score: false on NaN.
Geq(score, min) ==
    CASE score.t = "num" -> score.n >= min * score.d
      [] score.t = "inf" -> score.n > 0
      [] OTHER -> FALSE
Less(score, max) ==
    CASE score.t = "num" -> score.n < max * score.d
      [] score.t = "inf" -> score.n < 0
      [] OTHER -> FALSE

PassMinScore == 75
AverageMinScore == 45

calculateRating(score, precision) ==
    IF precision = "numeric"
    THEN (IF Geq(score, PassMinScore) THEN "pass"
          ELSE IF Geq(score, AverageMinScore) THEN "average"
          ELSE "fail")
    ELSE \* 'grade' is not implemented: every other precision is binary
         IF score = Num(100) THEN "pass" ELSE "fail"

\* number.toLocaleString(undefined, {maximumFractionDigits: 1}) in an
\* English locale, for the numbers a score takes here: integers of fewer
\* than four digits (no grouping, no fraction) and the infinities.
formatNumber(number) ==
    CASE number.t = "num" /\ number.d = 1 -> <<ToString(number.n)>>
      [] number.t = "inf" -> IF number.n > 0 THEN <<"Infinity sign">> ELSE <<"-", "Infinity sign">>
      [] OTHER -> <<"NaN">>

\* DOM.cloneTemplate: the templates the host document holds are host.templates.
cloneTemplate(host, selector) ==
    IF selector \notin host.templates
    THEN Throw(Error("Error", <<"Template not found: template", selector>>))
    ELSE Return(Element("#document-fragment", {}, <<>>, <<>>))

\* The outcome of rendering a sequence of children: [ok, kids, err].
noChildren == [ok |-> TRUE, kids |-> <<>>, err |-> noError]

\* One more round of a `for (const x of xs) parent.appendChild(render(x))`
\* loop: the first child that throws ends the loop with its error.
Cons(first, rest) ==
    IF ~first.ok THEN [ok |-> FALSE, kids |-> <<>>, err |-> first.err]
    ELSE IF ~rest.ok THEN rest
    ELSE [ok |-> TRUE, kids |-> <<first.el>> \o rest.kids, err |-> noError]

\* parent.appendChild(child), and the loop of them, where parent, child and
\* children are outcomes: the first error met is the one that leaves.
appendChild(parent, child) ==
    IF ~parent.ok THEN parent
    ELSE IF ~child.ok THEN child
    ELSE Return([parent.el EXCEPT !.kids = @ \o <<child.el>>])
appendChildren(parent, children) ==
    IF ~parent.ok THEN parent
    ELSE IF ~children.ok THEN Throw(children.err)
    ELSE Return([parent.el EXCEPT !.kids = @ \o children.kids])

RECURSIVE _renderDetails(_)
RECURSIVE renderItems(_)

\* `for (const item of items) parent.appendChild(this._renderDetails(item))`
renderItems(its) ==
    IF its = <<>> THEN noChildren
    ELSE Cons(_renderDetails(Head(its)), renderItems(Tail(its)))

_renderText(text) ==
    Return(Element("div", {"lighthouse-text"}, <<text.text>>, <<>>))

_renderBlock(block) ==
    appendChildren(Return(Element("div", {"lighthouse-block"}, <<>>, <<>>)),
                   renderItems(block.items))

\* _renderList appending the header after the items container.
_renderList_HeaderLast(list) ==
    appendChildren(
        appendChild(
            Return(Element("details", {"lighthouse-list"}, <<>>, <<>>)),
            appendChildren(Return(Element("div", {"lighthouse-list__items"}, <<>>, <<>>)),
                           renderItems(list.items))),
        [ok |-> TRUE,
         kids |-> IF list.header # <<>>
                  THEN <<Element("summary", {"lighthouse-list__header"},
                                 <<list.header[1].text>>, <<>>)>>
                  ELSE <<>>,
         err |-> noError])

_renderList(list) ==
    LET summary == IF list.header # <<>>
                   THEN <<Element("summary", {"lighthouse-list__header"},
                                  <<list.header[1].text>>, <<>>)>>
                   ELSE <<>>
    IN  appendChild(
            Return(Element("details", {"lighthouse-list"}, <<>>, summary)),
            appendChildren(Return(Element("div", {"lighthouse-list__items"}, <<>>, <<>>)),
                           renderItems(list.items)))

_renderDetails(details) ==
    CASE details.type = "text" -> _renderText(details)
      [] details.type = "block" -> _renderBlock(details)
      [] details.type = "list" -> _renderList(details)
      [] OTHER -> Throw(Error("Error", <<"Unknown type: ", details.type>>))

ratingClass(rating) ==
    CASE rating = "pass" -> "lighthouse-score__value--pass"
      [] rating = "average" -> "lighthouse-score__value--average"
      [] rating = "fail" -> "lighthouse-score__value--fail"
precisionClass(precision) ==
    CASE precision = "binary" -> "lighthouse-score__value--binary"
      [] precision = "numeric" -> "lighthouse-score__value--numeric"
      [] precision = "category" -> "lighthouse-score__value--category"

\* precision of _renderScore (line 161)
precisionOf(isAudit) == IF isAudit THEN "binary" ELSE "category"

\* header.open of _renderScore (line 179): expand failed audits
headerOpen(score) == Less(score, 100)

\* Lines 177-183 of _renderScore: the template's header element as the
\* audit leaves it (a template may have none).
scoreHeader(host, score, auditOrCategory) ==
    LET isAudit == "result" \in DOMAIN auditOrCategory
        header == [tag |-> "details", cls |-> {"lighthouse-score__header"}, text |-> <<>>,
                   open |-> isAudit /\ headerOpen(score), kids |-> <<>>]
    IN  IF ~host.header THEN noChildren
        ELSE IF isAudit /\ auditOrCategory.result.details # undefinedDetails
        THEN Cons(appendChild(Return(header), _renderDetails(auditOrCategory.result.details)),
                  noChildren)
        ELSE Cons(Return(header), noChildren)

\* The cloned score template filled in.  The fragment's children are the
\* elements the selectors find: value, title, description and, when the
\* template has one, header.
_renderScore(host, score, title, description, auditOrCategory) ==
    LET isAudit == "result" \in DOMAIN auditOrCategory
        precision == precisionOf(isAudit)
        rating == calculateRating(score, precision)
        value == Element("div",
                    {"lighthouse-score__value", ratingClass(rating), precisionClass(precision)},
                    formatNumber(score), <<>>)
        titleEl == Element("div", {"lighthouse-score__title"}, title, <<>>)
        descriptionEl == Element("div", {"lighthouse-score__description"}, description, <<>>)
    IN  appendChildren(
            appendChildren(
                cloneTemplate(host, IF isAudit THEN "#tmpl-lighthouse-audit-score"
                                    ELSE "#tmpl-lighthouse-category-score"),
                [ok |-> TRUE, kids |-> <<value, titleEl, descriptionEl>>, err |-> noError]),
            scoreHeader(host, score, auditOrCategory))

\* The title of an audit (lines 289-295).
auditTitle(result) ==
    <<result.description>>
    \o (IF result.displayValue # "" THEN <<":  ", result.displayValue>> ELSE <<>>)
    \o (IF result.optimalValue # "" THEN <<" (target: ", result.optimalValue, ")">> ELSE <<>>)

_renderAudit(host, audit) ==
    appendChild(Return(Element("div", {"lighthouse-audit"}, <<>>, <<>>)),
                _renderScore(host, audit.score, auditTitle(audit.result),
                             <<audit.result.helpText>>, audit))

RECURSIVE renderAudits(_, _)
renderAudits(host, audits) ==
    IF audits = <<>> THEN noChildren
    ELSE Cons(_renderAudit(host, Head(audits)), renderAudits(host, Tail(audits)))

_renderCategory(host, category) ==
    appendChildren(
        appendChild(Return(Element("div", {"lighthouse-category"}, <<>>, <<>>)),
                    _renderScore(host, category.score, <<category.name>>,
                                 <<category.description>>, category)),
        renderAudits(host, category.audits))

RECURSIVE renderCategories(_, _)
renderCategories(host, categories) ==
    IF categories = <<>> THEN noChildren
    ELSE Cons(_renderCategory(host, Head(categories)),
              renderCategories(host, Tail(categories)))

\* `for (const category of report.reportCategories)`: a report without the
\* property iterates undefined, which throws a TypeError.
_renderReport(host, report) ==
    IF "reportCategories" \notin DOMAIN report
    THEN Throw(Error("TypeError", <<"report.reportCategories is not iterable">>))
    ELSE appendChildren(Return(Element("div", {"lighthouse-report"}, <<>>, <<>>)),
                        renderCategories(host, report.reportCategories))

\* e.stack: the error's name and message, then the frames of the stack.
_renderException(e) ==
    Element("div", {"lighthouse-exception"},
            <<e.name, ": ">> \o e.message \o <<"\n    at (stack frames)">>, <<>>)

\* A boundary that lets the error through.
catch_Rethrow(tried) ==
    IF tried.ok THEN [threw |-> FALSE, el |-> tried.el]
    ELSE [threw |-> TRUE, el |-> noElement]

\* try { return tried } catch (e) { return this._renderException(e) }:
\* what the caller gets, an element returned or (never) an error thrown.
catch(tried) ==
    IF tried.ok THEN [threw |-> FALSE, el |-> tried.el]
    ELSE [threw |-> FALSE, el |-> _renderException(tried.err)]

renderReport(host, report) == catch(_renderReport(host, report))

(***************************************************************************)
(* ReportGeneratorV2.replaceStrings.  A string is the sequence of its      *)
(* characters.  Each character is a record [ch, at]: ch is the character,  *)
(* and at records where it comes from, its position in the source argument *)
(* of the outermost call, or 0 for a character a replacement put in.  The  *)
(* code sees ch alone.                                                     *)
(***************************************************************************)
Characters(str) == [i \in 1..Len(str) |-> [ch |-> str[i], at |-> i]]
Inserted(str) == [i \in 1..Len(str) |-> [ch |-> str[i], at |-> 0]]
TextOf(marked) == [i \in 1..Len(marked) |-> marked[i].ch]

\* search occurs in str at position i.
OccursAt(str, search, i) ==
    /\ i >= 1
    /\ i + Len(search) - 1 <= Len(str)
    /\ \A j \in 1..Len(search) : str[i + j - 1].ch = search[j]

\* str.indexOf(search), 1-based; 0 when there is none.
indexOf(str, search) ==
    IF \E i \in 1..Len(str) : OccursAt(str, search, i)
    THEN CHOOSE i \in 1..Len(str) :
            /\ OccursAt(str, search, i)
            /\ \A j \in 1..(i - 1) : ~OccursAt(str, search, j)
    ELSE 0

\* str.split(separator): the pieces between the separator's occurrences,
\* found from the left; an empty separator splits into single characters.
RECURSIVE split(_, _)
split(str, separator) ==
    IF separator = <<>> THEN [i \in 1..Len(str) |-> <<str[i]>>]
    ELSE IF indexOf(str, separator) = 0 THEN <<str>>
    ELSE <<SubSeq(str, 1, indexOf(str, separator) - 1)>>
         \o split(SubSeq(str, indexOf(str, separator) + Len(separator), Len(str)), separator)

\* parts.join(separator)
RECURSIVE join(_, _)
join(parts, separator) ==
    IF parts = <<>> THEN <<>>
    ELSE IF Len(parts) = 1 THEN parts[1]
    ELSE parts[1] \o separator \o join(Tail(parts), separator)

\* Serial replacement: each entry rewrites the whole of what the entries
\* before it produced.
RECURSIVE replaceStrings_Serial(_, _)
replaceStrings_Serial(str, reps) ==
    IF Len(reps) = 0 THEN str
    ELSE replaceStrings_Serial(
            join(split(str, reps[1].search), Inserted(reps[1].replacement)), Tail(reps))

RECURSIVE replaceStrings(_, _)
RECURSIVE mapReplaceStrings(_, _)

\* parts.map(part => ReportGeneratorV2.replaceStrings(part, nextReplacements))
mapReplaceStrings(parts, nextReplacements) ==
    IF parts = <<>> THEN <<>>
    ELSE <<replaceStrings(Head(parts), nextReplacements)>>
         \o mapReplaceStrings(Tail(parts), nextReplacements)

replaceStrings(str, reps) ==
    IF Len(reps) = 0 THEN str
    ELSE join(mapReplaceStrings(split(str, reps[1].search), Tail(reps)),
              Inserted(reps[1].replacement))

(***************************************************************************)
(* Bounds and input sets                                                   *)
(***************************************************************************)
MaxItems == 2

SeqsUpTo(S, k) == UNION {[1..m -> S] : m \in 0..k}

MeanScores == {Num(0), Num(50), Num(90), Num(100), Null, Undefined, Str, NaN, PosInf}
MeanWeights == {Num(0), Num(1), Num(3), Num(-1), Undefined, Str, PosInf}
MeanItems == [score : MeanScores, weight : MeanWeights]

MaxCategories == 2
MaxNodes == 4

CategoryIds == {"2", "10", "perf"}
AuditIds == {"a1", "a2"}
AuditWeights == {Num(1), Num(3)}
ResultScores == {Bool(TRUE), Bool(FALSE), Num(92), Num(95), Num(150), Null, Undefined, Str}

\* Sequences without repetition of the id field: a mapping lists a key once,
\* and an audit id is unique within a category's audit list.
DistinctIds(seq) == \A i, j \in 1..Len(seq) : seq[i].id = seq[j].id => i = j

AuditLists(W) ==
    {a \in SeqsUpTo([id : AuditIds, weight : W], Cardinality(AuditIds)) : DistinctIds(a)}
Entries(W) ==
    UNION {[id : {id},
            category : [name : {id}, description : {"about"}, weight : {Num(1)},
                        audits : AuditLists(W)]] : id \in CategoryIds}
Configs(W) == {c \in SeqsUpTo(Entries(W), MaxCategories) : DistinctIds(c)}

Result(score, det, displayValue, optimalValue) ==
    [score |-> score, details |-> det, description |-> "desc", helpText |-> "help",
     displayValue |-> displayValue, optimalValue |-> optimalValue]
PlainResults == {Result(sc, undefinedDetails, "", "") : sc \in ResultScores}
ResultMaps(R) == UNION {[D -> R] : D \in SUBSET AuditIds}

\* Details trees.
Text(str) == [type |-> "text", text |-> str, header |-> <<>>, items |-> <<>>]
Block(its) == [type |-> "block", text |-> "", header |-> <<>>, items |-> its]
List(header, its) == [type |-> "list", text |-> "", header |-> header, items |-> its]
Graph == [type |-> "graph", text |-> "", header |-> <<>>, items |-> <<>>]
Headers == {<<>>, <<Text("h")>>}

\* The details trees of exactly n nodes (a header is not counted) over the
\* leaves L, and the sequences of trees of n nodes in all.
RECURSIVE TreesOfSize(_, _)
RECURSIVE Forests(_, _)
TreesOfSize(L, n) ==
    IF n = 1 THEN L \cup {Block(<<>>)} \cup {List(h, <<>>) : h \in Headers}
    ELSE {Block(f) : f \in Forests(L, n - 1)}
         \cup {List(h, f) : h \in Headers, f \in Forests(L, n - 1)}
Forests(L, n) ==
    IF n = 0 THEN {<<>>}
    ELSE UNION {{<<t>> \o f : t \in TreesOfSize(L, k), f \in Forests(L, n - k)} : k \in 1..n}
Trees(L) == UNION {TreesOfSize(L, n) : n \in 1..MaxNodes}
Leaves == {Text("a"), Text("b"), Graph}

\* The host documents: which score templates the document holds, and
\* whether the score templates have a .lighthouse-score__header element.
Templates == {"#tmpl-lighthouse-audit-score", "#tmpl-lighthouse-category-score"}
Hosts == [templates : SUBSET Templates, header : BOOLEAN]

\* The results of the pipeline: every audit has one; a1 has a display value
\* and a2 a target.
SomeDetails ==
    {undefinedDetails,
     List(<<Text("h")>>, <<Text("a"), Block(<<Text("b")>>)>>),
     Block(<<Text("a"), List(<<>>, <<Graph>>)>>)}
ReportScores == {Bool(TRUE), Num(92), Num(150)}
ReportResults ==
    {[a \in AuditIds |->
        Result(sc[a], det[a], IF a = "a1" THEN "1.2s" ELSE "", IF a = "a2" THEN "1s" ELSE "")]
     : sc \in [AuditIds -> ReportScores], det \in [AuditIds -> SomeDetails]}

\* Strings over two characters; search strings are not empty.
MaxSource == 3
MaxReplacements == 2
Alphabet == {"a", "b"}
SearchStrings == SeqsUpTo(Alphabet, 2) \ {<<>>}
ReplacementStrings == {<<>>, <<"a">>, <<"b">>, <<"b", "a">>}
Replacements ==
    SeqsUpTo([search : SearchStrings, replacement : ReplacementStrings], MaxReplacements)

noJson == [threw |-> FALSE, score |-> Num(0), categories |-> <<>>]
noReport == [score |-> Num(0)]
noHost == [templates |-> {}, header |-> FALSE]
noOutcome == [threw |-> FALSE, el |-> noElement]

(***************************************************************************)
(* The variables of the functions a specification does not run.            *)
(***************************************************************************)
MeanIdle == items = <<>> /\ mean = Num(0)
JsonIdle == config = <<>> /\ resultsByAuditId = <<>> /\ json = noJson
RenderIdle == dom = noHost /\ reportJSON = noReport /\ element = noOutcome
DetailsIdle == detailsJSON = undefinedDetails /\ rendered = Return(noElement)
ReplaceIdle == source = <<>> /\ replacements = <<>> /\ replaced = <<>>

(***************************************************************************)
(* MeanSpec: arithmeticMean applied to a bounded sequence of items.        *)
(***************************************************************************)
MeanInit ==
    /\ pc = "start"
    /\ items \in SeqsUpTo(MeanItems, MaxItems)
    /\ mean = Num(0)
    /\ JsonIdle /\ RenderIdle /\ DetailsIdle /\ ReplaceIdle

ArithmeticMean ==
    /\ pc = "start"
    /\ mean' = arithmeticMean(items)
    /\ pc' = "done"
    /\ UNCHANGED <<items, jsonVars, renderVars, detailsVars, replaceVars>>

MeanNext == ArithmeticMean

MeanSpec == MeanInit /\ [][MeanNext]_vars

(***************************************************************************)
(* JsonSpec: generateReportJson applied to a bounded configuration and     *)
(* results mapping.                                                        *)
(***************************************************************************)
JsonInit ==
    /\ pc = "start"
    /\ config \in Configs(AuditWeights)
    /\ resultsByAuditId \in ResultMaps(PlainResults)
    /\ json = noJson
    /\ MeanIdle /\ RenderIdle /\ DetailsIdle /\ ReplaceIdle

GenerateReportJson ==
    /\ pc = "start"
    /\ json' = generateReportJson(config, resultsByAuditId)
    /\ pc' = "generated"
    /\ UNCHANGED <<config, resultsByAuditId, meanVars, renderVars, detailsVars, replaceVars>>

JsonNext == GenerateReportJson

JsonSpec == JsonInit /\ [][JsonNext]_vars

(***************************************************************************)
(* DetailsSpec: _renderDetails applied to a bounded details tree.          *)
(***************************************************************************)
DetailsInit ==
    /\ pc = "start"
    /\ detailsJSON \in Trees(Leaves)
    /\ rendered = Return(noElement)
    /\ MeanIdle /\ JsonIdle /\ RenderIdle /\ ReplaceIdle

RenderDetails ==
    /\ pc = "start"
    /\ rendered' = _renderDetails(detailsJSON)
    /\ pc' = "detailsRendered"
    /\ UNCHANGED <<detailsJSON, meanVars, jsonVars, renderVars, replaceVars>>

DetailsNext == RenderDetails

DetailsSpec == DetailsInit /\ [][DetailsNext]_vars

(***************************************************************************)
(* ReplaceSpec: replaceStrings applied to a bounded source and list of     *)
(* replacements.                                                           *)
(***************************************************************************)
ReplaceInit ==
    /\ pc = "start"
    /\ source \in SeqsUpTo(Alphabet, MaxSource)
    /\ replacements \in Replacements
    /\ replaced = <<>>
    /\ MeanIdle /\ JsonIdle /\ RenderIdle /\ DetailsIdle

ReplaceStrings ==
    /\ pc = "start"
    /\ replaced' = replaceStrings(Characters(source), replacements)
    /\ pc' = "replaced"
    /\ UNCHANGED <<source, replacements, meanVars, jsonVars, renderVars, detailsVars>>

ReplaceNext == ReplaceStrings

ReplaceSpec == ReplaceInit /\ [][ReplaceNext]_vars

(***************************************************************************)
(* Spec: the pipeline.  generateReportJson computes the score tree of a    *)
(* configuration and its results; renderReport renders either that value   *)
(* as it is, or the ReportJSON {reportCategories} a caller builds from its *)
(* categories.                                                             *)
(***************************************************************************)
\* Configurations of every shape, with a few details trees.
InitConfigs ==
    /\ config \in Configs({Num(1)})
    /\ resultsByAuditId \in ReportResults
    /\ dom \in Hosts

\* One category of one audit, with every details tree.
InitDetails ==
    /\ config = <<[id |-> "perf",
                   category |-> [name |-> "perf", description |-> "about", weight |-> Num(1),
                                 audits |-> <<[id |-> "a1", weight |-> Num(1)]>>]]>>
    /\ resultsByAuditId \in {[a \in AuditIds |-> Result(Num(92), det, "", "")] :
                                det \in Trees(Leaves)}
    /\ dom \in [templates : {Templates}, header : BOOLEAN]

Init ==
    /\ pc = "start"
    /\ json = noJson
    /\ reportJSON = noReport
    /\ element = noOutcome
    /\ MeanIdle /\ DetailsIdle /\ ReplaceIdle
    /\ (InitConfigs \/ InitDetails)

\* renderReport(json): the value generateReportJson returned, unchanged.
RenderGenerated ==
    /\ pc = "generated"
    /\ ~json.threw
    /\ reportJSON' = [score |-> json.score, categories |-> json.categories]
    /\ element' = renderReport(dom, reportJSON')
    /\ pc' = "rendered"
    /\ UNCHANGED <<dom, meanVars, jsonVars, detailsVars, replaceVars>>

\* renderReport({reportCategories: json.categories}): the ReportJSON of the
\* typedef, built from the generated categories.
RenderReportJSON ==
    /\ pc = "generated"
    /\ ~json.threw
    /\ reportJSON' = [reportCategories |-> json.categories]
    /\ element' = renderReport(dom, reportJSON')
    /\ pc' = "rendered"
    /\ UNCHANGED <<dom, meanVars, jsonVars, detailsVars, replaceVars>>

Next == GenerateReportJson \/ RenderGenerated \/ RenderReportJSON

Spec == Init /\ [][Next]_vars

(***************************************************************************)
(* Claims on the aggregator                                                *)
(***************************************************************************)
\* The weight total and the weighted sum of the claim: a field that is not a
\* finite number counts as 0.
C5_Clean(x) == IF x.t = "num" THEN x.n ELSE 0
RECURSIVE C5_TotalWeight(_)
C5_TotalWeight(its) ==
    IF its = <<>> THEN 0 ELSE C5_Clean(Head(its).weight) + C5_TotalWeight(Tail(its))
RECURSIVE C5_WeightedSum(_)
C5_WeightedSum(its) ==
    IF its = <<>> THEN 0
    ELSE C5_Clean(Head(its).weight) * C5_Clean(Head(its).score) + C5_WeightedSum(Tail(its))

\* C5: arithmeticMean returns sum(weight_i * score_i) / sum(weight_i), a
\* score or weight that is not a finite number (null, undefined, a
\* non-numeric string, NaN, an infinity) counting as 0 for that field only;
\* it returns 0 when the total weight is 0 and never NaN or an infinity.
C5_MeanAsSpecified ==
    pc = "done" =>
        /\ mean.t = "num"
        /\ mean = IF C5_TotalWeight(items) = 0 THEN Num(0)
                  ELSE Frac(C5_WeightedSum(items), C5_TotalWeight(items))

\* The part of C5 the code keeps: with finite scores and non-negative finite
\* weights (or fields that are null, undefined, NaN or non-numeric), the
\* mean is the specified one.
C5_Tame(x) == x.t # "inf" /\ (x.t = "num" => x.n >= 0)
C5_MeanOfTameItems ==
    (pc = "done" /\ \A i \in 1..Len(items) : C5_Tame(items[i].score) /\ C5_Tame(items[i].weight))
        => /\ mean.t = "num"
           /\ mean = IF C5_TotalWeight(items) = 0 THEN Num(0)
                     ELSE Frac(C5_WeightedSum(items), C5_TotalWeight(items))

\* Every audit the configuration lists has a result.
AllResultsPresent ==
    \A i \in 1..Len(config) :
        \A j \in 1..Len(config[i].category.audits) :
            config[i].category.audits[j].id \in DOMAIN resultsByAuditId

\* The output category of a configured category, found by its name.
OutputOf(category) ==
    CHOOSE c \in {json.categories[k] : k \in 1..Len(json.categories)} : c.name = category.name

\* round-half-up of the weighted mean of scored audits (0 without weight).
RECURSIVE C4_Weight(_)
C4_Weight(audits) ==
    IF audits = <<>> THEN 0 ELSE Head(audits).weight.n + C4_Weight(Tail(audits))
RECURSIVE C4_Sum(_)
C4_Sum(audits) ==
    IF audits = <<>> THEN 0
    ELSE Head(audits).weight.n * Head(audits).score.n + C4_Sum(Tail(audits))
C4_RoundHalfUp(audits) ==
    IF C4_Weight(audits) = 0 THEN 0
    ELSE (2 * C4_Sum(audits) + C4_Weight(audits)) \div (2 * C4_Weight(audits))

\* C4: whatever the raw audit scores and weights, every output category's
\* score is an integer between 0 and 100, the round-half-up of the weighted
\* mean of its audits' normalized scores.
C4_CategoryScoreInRange ==
    (pc = "generated" /\ ~json.threw) =>
        \A i \in 1..Len(json.categories) :
            LET c == json.categories[i]
            IN  /\ c.score.t = "num" /\ c.score.d = 1
                /\ c.score.n = C4_RoundHalfUp(c.audits)
                /\ c.score.n \in 0..100

\* The part of C4 the code keeps: the rounding.
C4_CategoryScoreRounded ==
    (pc = "generated" /\ ~json.threw) =>
        \A i \in 1..Len(json.categories) :
            json.categories[i].score = Num(C4_RoundHalfUp(json.categories[i].audits))

\* The normalized score the claim gives a raw result score.
C6_Normalized(score) ==
    CASE score = Bool(TRUE) -> Num(100)
      [] score = Bool(FALSE) -> Num(0)
      [] score.t = "num" -> score
      [] OTHER -> Num(0)

\* C6: when every audit's result is present, generateReportJson returns a
\* score tree (it does not throw) in which every configured audit has the
\* normalized score of its raw result: true is 100, false is 0, a number is
\* itself, and null, absent or non-numeric is 0.
C6_NormalizesMalformedResults ==
    (pc = "generated" /\ AllResultsPresent) =>
        /\ ~json.threw
        /\ Len(json.categories) = Len(config)
        /\ \A i \in 1..Len(config) :
              LET category == config[i].category
                  out == OutputOf(category)
              IN  /\ Len(out.audits) = Len(category.audits)
                  /\ \A j \in 1..Len(category.audits) :
                        /\ out.audits[j].id = category.audits[j].id
                        /\ out.audits[j].score =
                              C6_Normalized(resultsByAuditId[category.audits[j].id].score)

\* A category of two audits, one with score true and one with a
\* non-numeric score, has been scored 100 and 0.
C6_Witness ==
    /\ pc = "generated"
    /\ AllResultsPresent
    /\ ~json.threw
    /\ \E i \in 1..Len(json.categories) :
          LET audits == json.categories[i].audits
          IN  /\ Len(audits) = 2
              /\ audits[1].result.score = Bool(TRUE) /\ audits[1].score = Num(100)
              /\ audits[2].result.score = Str /\ audits[2].score = Num(0)

\* C7: the output categories are in the order in which the configuration
\* lists its category ids, whatever the ids look like, and each category's
\* audits are in the order of its configured audit list.
C7_OrderAsConfigured ==
    (pc = "generated" /\ ~json.threw) =>
        /\ Len(json.categories) = Len(config)
        /\ \A i \in 1..Len(config) :
              /\ json.categories[i].name = config[i].category.name
              /\ Len(json.categories[i].audits) = Len(config[i].category.audits)
              /\ \A j \in 1..Len(config[i].category.audits) :
                    json.categories[i].audits[j].id = config[i].category.audits[j].id

\* The part of C7 the code keeps: the audits of every category are in the
\* configured order.
C7_AuditOrderAsConfigured ==
    (pc = "generated" /\ ~json.threw) =>
        \A i \in 1..Len(config) :
            LET out == OutputOf(config[i].category)
            IN  [j \in 1..Len(out.audits) |-> out.audits[j].id]
                    = [j \in 1..Len(config[i].category.audits) |-> config[i].category.audits[j].id]

(***************************************************************************)
(* Claims on the renderer                                                  *)
(***************************************************************************)
\* A details tree holds a node whose tag is none of text, block and list.
RECURSIVE HasUnknownTag(_)
HasUnknownTag(d) ==
    \/ d.type \notin {"text", "block", "list"}
    \/ \E i \in 1..Len(d.items) : HasUnknownTag(d.items[i])

\* The audits of a sequence of scored categories.
AuditsOf(categories) ==
    UNION {{categories[i].audits[j] : j \in 1..Len(categories[i].audits)}
           : i \in 1..Len(categories)}

\* The render of reportJSON on dom raises a failure: the report lacks its
\* category sequence, a score template it needs is missing, or the details
\* of an audit (rendered when the audit template has a header) hold a node
\* of unknown tag.
C1_Raises ==
    \/ "reportCategories" \notin DOMAIN reportJSON
    \/ /\ reportJSON.reportCategories # <<>>
       /\ "#tmpl-lighthouse-category-score" \notin dom.templates
    \/ /\ AuditsOf(reportJSON.reportCategories) # {}
       /\ "#tmpl-lighthouse-audit-score" \notin dom.templates
    \/ /\ dom.header
       /\ \E a \in AuditsOf(reportJSON.reportCategories) :
             a.result.details # undefinedDetails /\ HasUnknownTag(a.result.details)

\* The descriptions of the failures a render on dom can raise.
C1_Descriptions ==
    {<<"Template not found: template", t>> : t \in Templates \ dom.templates}
    \cup {<<"Unknown type: ", "graph">>, <<"report.reportCategories is not iterable">>}

\* C1: renderReport never throws to its caller; when the render raises a
\* failure anywhere in the recursion it returns a single exception element
\* that carries the error's description and stack and holds no part of a
\* report tree, and otherwise it returns the report element.
C1_NeverThrows ==
    pc = "rendered" =>
        /\ ~element.threw
        /\ IF C1_Raises
           THEN /\ element.el.cls = {"lighthouse-exception"}
                /\ element.el.kids = <<>>
                /\ Len(element.el.text) > 3
                /\ element.el.text[1] \in {"Error", "TypeError"}
                /\ SubSeq(element.el.text, 3, Len(element.el.text) - 1) \in C1_Descriptions
           ELSE element.el.cls = {"lighthouse-report"}

\* A report whose templates are all there and whose second-level details
\* node, two levels below an audit's details, is a graph has been rendered
\* as the exception element of "Unknown type: graph".
C1_Witness ==
    /\ pc = "rendered"
    /\ "reportCategories" \in DOMAIN reportJSON
    /\ dom.templates = Templates
    /\ dom.header
    /\ \E a \in AuditsOf(reportJSON.reportCategories) :
          /\ a.result.details.type = "block"
          /\ \E i \in 1..Len(a.result.details.items) :
                /\ a.result.details.items[i].type = "list"
                /\ \E k \in 1..Len(a.result.details.items[i].items) :
                      a.result.details.items[i].items[k].type = "graph"
    /\ ~element.threw
    /\ element.el.cls = {"lighthouse-exception"}
    /\ element.el.text = <<"Error", ": ", "Unknown type: ", "graph", "\n    at (stack frames)">>

\* The report was rendered as a report tree, not as an exception.
RenderedReport ==
    /\ pc = "rendered"
    /\ "reportCategories" \in DOMAIN reportJSON
    /\ element.el.cls = {"lighthouse-report"}

\* The class that rates a score element's value.
RatingClass(rating) ==
    CASE rating = "pass" -> "lighthouse-score__value--pass"
      [] rating = "average" -> "lighthouse-score__value--average"
      [] rating = "fail" -> "lighthouse-score__value--fail"
Ratings == {"pass", "average", "fail"}
RatedAs(value, rating) ==
    \A r \in Ratings : (RatingClass(r) \in value.cls) <=> (r = rating)

C2_NumericRating(score) ==
    IF score.n >= 75 * score.d THEN "pass"
    ELSE IF score.n >= 45 * score.d THEN "average"
    ELSE "fail"
C2_BinaryRating(score) == IF score = Num(100) THEN "pass" ELSE "fail"

\* The score fragment of a category or audit element, and its parts.
ScoreOf(el) == el.kids[1]
ValueOf(fragment) == fragment.kids[1]

\* C2: in a rendered report every category's score element is rated with
\* numeric precision (pass from 75, average from 45, else fail) and every
\* audit's with binary precision (pass only at 100).
C2_RatingPrecisions ==
    RenderedReport =>
        \A i \in 1..Len(reportJSON.reportCategories) :
            LET category == reportJSON.reportCategories[i]
                container == element.el.kids[i]
            IN  /\ RatedAs(ValueOf(ScoreOf(container)), C2_NumericRating(category.score))
                /\ \A j \in 1..Len(category.audits) :
                      RatedAs(ValueOf(ScoreOf(container.kids[j + 1])),
                              C2_BinaryRating(category.audits[j].score))

\* The part of C2 the code keeps: audits are rated with binary precision.
C2_AuditsRatedBinary ==
    RenderedReport =>
        \A i \in 1..Len(reportJSON.reportCategories) :
            \A j \in 1..Len(reportJSON.reportCategories[i].audits) :
                RatedAs(ValueOf(ScoreOf(element.el.kids[i].kids[j + 1])),
                        C2_BinaryRating(reportJSON.reportCategories[i].audits[j].score))

\* The configuration/results pair is well-formed for the document: the
\* score templates are there and no details tree holds an unknown tag.
C3_WellFormed ==
    /\ dom.templates = Templates
    /\ \A a \in DOMAIN resultsByAuditId :
          resultsByAuditId[a].details = undefinedDetails
          \/ ~HasUnknownTag(resultsByAuditId[a].details)

\* C3: the value generateReportJson returned, passed unchanged to
\* renderReport, renders as the report root with one category container per
\* scored category in order, each holding its score element and one audit
\* element per scored audit, and not as the exception element.
C3_RoundTrip ==
    (/\ pc = "rendered"
     /\ reportJSON = [score |-> json.score, categories |-> json.categories]
     /\ C3_WellFormed) =>
        /\ element.el.cls = {"lighthouse-report"}
        /\ Len(element.el.kids) = Len(json.categories)
        /\ \A i \in 1..Len(json.categories) :
              /\ element.el.kids[i].cls = {"lighthouse-category"}
              /\ Len(element.el.kids[i].kids) = 1 + Len(json.categories[i].audits)

\* The same of the ReportJSON built from the generated categories: this the
\* code does render.
C3_ReportCategoriesRender ==
    (/\ pc = "rendered"
     /\ reportJSON = [reportCategories |-> json.categories]
     /\ C3_WellFormed) =>
        /\ element.el.cls = {"lighthouse-report"}
        /\ Len(element.el.kids) = Len(json.categories)
        /\ \A i \in 1..Len(json.categories) :
              /\ element.el.kids[i].cls = {"lighthouse-category"}
              /\ Len(element.el.kids[i].kids) = 1 + Len(json.categories[i].audits)

\* C10: for every audit rendered from a generated score tree, the audit's
\* expandable header is open exactly when the audit is rated fail and
\* closed exactly when it is rated pass.
C10_OpenIffFail ==
    (RenderedReport /\ reportJSON.reportCategories = json.categories /\ dom.header) =>
        \A i \in 1..Len(element.el.kids) :
            \A j \in 2..Len(element.el.kids[i].kids) :
                LET fragment == ScoreOf(element.el.kids[i].kids[j])
                    header == fragment.kids[4]
                IN  /\ header.open <=> RatedAs(ValueOf(fragment), "fail")
                    /\ ~header.open <=> RatedAs(ValueOf(fragment), "pass")

\* The part of C10 the code keeps: for audit scores of at most 100.
C10_OpenIffFailUpTo100 ==
    (RenderedReport /\ reportJSON.reportCategories = json.categories /\ dom.header) =>
        \A i \in 1..Len(element.el.kids) :
            \A j \in 2..Len(element.el.kids[i].kids) :
                LET fragment == ScoreOf(element.el.kids[i].kids[j])
                    header == fragment.kids[4]
                IN  json.categories[i].audits[j - 1].score.n <= 100 =>
                        /\ header.open <=> RatedAs(ValueOf(fragment), "fail")
                        /\ ~header.open <=> RatedAs(ValueOf(fragment), "pass")

(***************************************************************************)
(* Claims on the details renderer, checked under DetailsSpec.              *)
(***************************************************************************)
\* el is the element tree that mirrors the details tree d.
RECURSIVE C8_Mirrors(_, _)
C8_MirrorsAll(its, kids) ==
    /\ Len(kids) = Len(its)
    /\ \A i \in 1..Len(its) : C8_Mirrors(its[i], kids[i])

C8_IsHeader(list, el) ==
    /\ el.cls = {"lighthouse-list__header"}
    /\ el.text = <<list.header[1].text>>
    /\ el.kids = <<>>

C8_IsItems(list, el) ==
    /\ el.cls = {"lighthouse-list__items"}
    /\ el.text = <<>>
    /\ C8_MirrorsAll(list.items, el.kids)

C8_Mirrors(d, el) ==
    CASE d.type = "text" ->
            /\ el.cls = {"lighthouse-text"}
            /\ el.text = <<d.text>>
            /\ el.kids = <<>>
      [] d.type = "block" ->
            /\ el.cls = {"lighthouse-block"}
            /\ el.text = <<>>
            /\ C8_MirrorsAll(d.items, el.kids)
      [] d.type = "list" ->
            /\ el.cls = {"lighthouse-list"}
            /\ el.text = <<>>
            /\ IF d.header # <<>>
               THEN /\ Len(el.kids) = 2
                    /\ C8_IsHeader(d, el.kids[1])
                    /\ C8_IsItems(d, el.kids[2])
               ELSE /\ Len(el.kids) = 1
                    /\ C8_IsItems(d, el.kids[1])
      [] OTHER -> FALSE

\* C8: rendering a details tree built only from text, block and list nodes
\* returns (it does not throw) an element tree that mirrors it: a text node
\* becomes a leaf holding its string, a block a container of its rendered
\* children in input order, a list a container holding a header element
\* first exactly when the list has a header, then one items container of
\* its rendered children in input order; a list with no header and no
\* children renders to one empty items container.
C8_DetailsMirrored ==
    (pc = "detailsRendered" /\ ~HasUnknownTag(detailsJSON))
        => /\ rendered.ok
           /\ C8_Mirrors(detailsJSON, rendered.el)
           /\ (detailsJSON = List(<<>>, <<>>)
                  => /\ Len(rendered.el.kids) = 1
                     /\ rendered.el.kids[1].kids = <<>>)

\* A list with a header, holding a text and a nested headerless empty list,
\* has been rendered.
C8_Witness ==
    /\ pc = "detailsRendered"
    /\ detailsJSON = List(<<Text("h")>>, <<Text("a"), List(<<>>, <<>>)>>)
    /\ rendered.ok
    /\ Len(rendered.el.kids) = 2
    /\ Len(rendered.el.kids[2].kids) = 2

(***************************************************************************)
(* Claims on replaceStrings, checked under ReplaceSpec.                    *)
(***************************************************************************)
\* The occurrences of the search strings in the source: <<k, i>> when the
\* search string of entry k occurs at position i.
C9_Occurrences ==
    {o \in (1..Len(replacements)) \X (1..Len(source)) :
        OccursAt(Characters(source), replacements[o[1]].search, o[2])}

\* The positions of the source an occurrence covers.
C9_Covers(o) == o[2]..(o[2] + Len(replacements[o[1]].search) - 1)

\* The character at position j of the source is in the result.
C9_Survives(j) == \E p \in 1..Len(replaced) : replaced[p].at = j

\* Every maximal run of inserted characters that starts at position p of
\* the result is made of whole replacement texts of the list.
RECURSIVE C9_WholeReplacements(_)
C9_WholeReplacements(p) ==
    IF p > Len(replaced) THEN TRUE
    ELSE IF replaced[p].at # 0 THEN C9_WholeReplacements(p + 1)
    ELSE \E k \in 1..Len(replacements) :
            /\ Len(replacements[k].replacement) > 0
            /\ p + Len(replacements[k].replacement) - 1 <= Len(replaced)
            /\ \A j \in 1..Len(replacements[k].replacement) :
                  replaced[p + j - 1] = [ch |-> replacements[k].replacement[j], at |-> 0]
            /\ C9_WholeReplacements(p + Len(replacements[k].replacement))

C9_NoOverlap ==
    \A o1, o2 \in C9_Occurrences :
        o1 # o2 => C9_Covers(o1) \cap C9_Covers(o2) = {}

\* The entry whose search string occurs at position i, 0 when none does.
C9_EntryAt(i) ==
    IF \E k \in 1..Len(replacements) : <<k, i>> \in C9_Occurrences
    THEN CHOOSE k \in 1..Len(replacements) : <<k, i>> \in C9_Occurrences
    ELSE 0

\* The source from position i on with every occurrence replaced at once,
\* reading from the left.
RECURSIVE C9_Simultaneous(_)
C9_Simultaneous(i) ==
    IF i > Len(source) THEN <<>>
    ELSE IF C9_EntryAt(i) = 0 THEN <<source[i]>> \o C9_Simultaneous(i + 1)
    ELSE replacements[C9_EntryAt(i)].replacement
         \o C9_Simultaneous(i + Len(replacements[C9_EntryAt(i)].search))

C9_Reverse(reps) == [k \in 1..Len(reps) |-> reps[Len(reps) + 1 - k]]

=============================================================================
